---------------------------- MODULE Spec2Model ----------------------------
(***************************************************************************)
(* NEON dissolved-gas pipeline: def_format_sdg (join and reshape the three *)
(* stacked tables), def_calc_sdg_conc (dissolved CO2, CH4, N2O) and        *)
(* def_calc_sdg_sat (saturation concentration and percent saturation).     *)
(*                                                                         *)
(* A pandas DataFrame is a function from column names to sequences of      *)
(* cells.  A cell is a record [k, v]: k = "num" is a finite number (v in   *)
(* the fixed-point unit of its column), k = "nan" is the missing value     *)
(* (numpy nan, which is also what a null cell is), k = "inf" is an         *)
(* infinity of sign v, k = "str" is a string (sample identifiers; v names  *)
(* the string).                                                            *)
(*                                                                         *)
(* Fixed-point units: temperatures 1e-2 degree, gas mixing ratios 1e-2     *)
(* ppmv, volumes mL, pressure kPa, dissolved and saturation concentrations *)
(* 1e-11 mol/L, percent saturation 1e-2 percent.                           *)
(***************************************************************************)
EXTENDS Integers, Sequences, FiniteSets, TLC

VARIABLES dataDir, externalLabData, fieldDataProc, fieldSuperParent,
          inputFile, csvFile, args, returned, pre, last, prev, ncalls

vars == <<dataDir, externalLabData, fieldDataProc, fieldSuperParent,
          inputFile, csvFile, args, returned, pre, last, prev, ncalls>>

(***************************************************************************)
(* Bounds of the model.                                                    *)
(***************************************************************************)
NRows == 2
MaxCalls == 2

Rows == 1..NRows
GasSet == {"CO2", "CH4", "N2O"}

(***************************************************************************)
(* Cells and floating-point arithmetic with nan and infinities.            *)
(***************************************************************************)
Num(n) == [k |-> "num", v |-> n]
NaN == [k |-> "nan", v |-> 0]
Inf(s) == [k |-> "inf", v |-> s]
Str(i) == [k |-> "str", v |-> i]

IsNull(x) == x.k = "nan"
IsFinite(x) == x.k = "num"
Sign(n) == IF n > 0 THEN 1 ELSE IF n < 0 THEN -1 ELSE 0

FNeg(a) == IF a.k = "nan" THEN NaN ELSE [a EXCEPT !.v = -a.v]

\* Variant: a sum that skips a missing operand.
FAddSkipNan(a, b) ==
    IF a.k = "nan" THEN b
    ELSE IF b.k = "nan" THEN a
    ELSE IF a.k = "inf" /\ b.k = "inf" THEN (IF a.v = b.v THEN a ELSE NaN)
    ELSE IF a.k = "inf" THEN a
    ELSE IF b.k = "inf" THEN b
    ELSE Num(a.v + b.v)

FAdd(a, b) ==
    IF a.k = "nan" \/ b.k = "nan" THEN NaN
    ELSE IF a.k = "inf" /\ b.k = "inf" THEN (IF a.v = b.v THEN a ELSE NaN)
    ELSE IF a.k = "inf" THEN a
    ELSE IF b.k = "inf" THEN b
    ELSE Num(a.v + b.v)

FSub(a, b) == FAdd(a, FNeg(b))

FMul(a, b) ==
    IF a.k = "nan" \/ b.k = "nan" THEN NaN
    ELSE IF a.k = "inf" \/ b.k = "inf"
         THEN (IF Sign(a.v) * Sign(b.v) = 0 THEN NaN ELSE Inf(Sign(a.v) * Sign(b.v)))
    ELSE Num(a.v * b.v)

\* a / b; two finite operands give the quotient in the unit of a over b.
FDiv(a, b) ==
    IF a.k = "nan" \/ b.k = "nan" THEN NaN
    ELSE IF a.k = "inf" THEN (IF b.k = "inf" THEN NaN
                              ELSE Inf(a.v * (IF b.v < 0 THEN -1 ELSE 1)))
    ELSE IF b.k = "inf" THEN Num(0)
    ELSE IF b.v = 0 THEN (IF a.v = 0 THEN NaN ELSE Inf(Sign(a.v)))
    ELSE Num(a.v \div b.v)

\* Change of fixed-point unit: a finite value is multiplied by up and divided
\* by down; nan and the infinities are what they were.
Rescale(a, up, down) == IF a.k = "num" THEN Num((a.v * up) \div down) ELSE a

\* numpy.exp of a value in 1e-4 units, in 1e-4 units (power series).
ExpSeries(x) ==
    LET t0 == 10000
        t1 == (t0 * x) \div 10000
        t2 == (t1 * x) \div 20000
        t3 == (t2 * x) \div 30000
        t4 == (t3 * x) \div 40000
        t5 == (t4 * x) \div 50000
        t6 == (t5 * x) \div 60000
    IN  t0 + t1 + t2 + t3 + t4 + t5 + t6

FExp(a) ==
    IF a.k = "nan" THEN NaN
    ELSE IF a.k = "inf" THEN (IF a.v > 0 THEN a ELSE Num(0))
    ELSE Num(ExpSeries(a.v))


(***************************************************************************)
(* Physical constants of the calculators, in fixed-point units.            *)
(***************************************************************************)
cGas == 8314            \* 8.3144598 J K-1 mol-1, in 1e-3
cKelvin == 27315        \* 273.15, in 1e-2 K
cPresConv == 1          \* 0.000001, in 1e-6
cT0 == 29815            \* 298.15, in 1e-2 K
cConcPerc == 100
ckHCO2 == 3300          \* 0.00033, in 1e-7
ckHCH4 == 140           \* 0.000014, in 1e-7
ckHN2O == 2400          \* 0.00024, in 1e-7
cdHdTCO2 == 2400
cdHdTCH4 == 1900
cdHdTN2O == 2700

ckH(g) == CASE g = "CO2" -> ckHCO2 [] g = "CH4" -> ckHCH4 [] g = "N2O" -> ckHN2O
cdHdT(g) == CASE g = "CO2" -> cdHdTCO2 [] g = "CH4" -> cdHdTCH4 [] g = "N2O" -> cdHdTN2O

\* The global mean written over a missing reference-air value (405, 1.85,
\* 0.330 ppmv).
globalMean(g) == CASE g = "CO2" -> 40500 [] g = "CH4" -> 185 [] g = "N2O" -> 33

(***************************************************************************)
(* The formulas, with the expression trees of the source.                  *)
(***************************************************************************)
\* ckH * np.exp(cdHdT * (1 / (temp + cKelvin) - 1 / cT0)), in 1e-7.
HenryAt(g, temp) ==
    LET one == Num(1000000000)
        recip == FSub(FDiv(one, FAdd(temp, Num(cKelvin))), FDiv(one, Num(cT0)))
        x == Rescale(FMul(Num(cdHdT(g)), recip), 1, 1000)
    IN  Rescale(FMul(Num(ckH(g)), FExp(x)), 1, 10000)

\* baro * cPresConv * (volGas * (eq - source) / (cGas * (hT + cKelvin) * volH2O)
\*                     + ckH * exp(...) * eq)
DissolvedFormula(g, baro, volGas, volH2O, hT, eq, source) ==
    LET num == Rescale(FMul(volGas, FSub(eq, source)), 100, 1)
        den == Rescale(FMul(Rescale(FMul(Num(cGas), FAdd(hT, Num(cKelvin))), 1, 100000),
                            volH2O), 1, 10)
        henry == Rescale(FMul(HenryAt(g, hT), eq), 1, 10000)
    IN  FMul(FMul(baro, Num(cPresConv)), FAdd(FDiv(num, den), henry))

\* (ckH * exp(...)) * source * baro * cPresConv
SatConcFormula(g, wT, source, baro) ==
    FMul(FMul(Rescale(FMul(HenryAt(g, wT), source), 1, 10000), baro), Num(cPresConv))

\* conc / satConc * cConcPerc
PercSatFormula(conc, satConc) ==
    FMul(FDiv(Rescale(conc, 100, 1), satConc), Num(cConcPerc))

(***************************************************************************)
(* Tables.                                                                 *)
(***************************************************************************)
NoTable == [none |-> <<>>]
HasCol(t, c) == c \in DOMAIN t
SetCol(t, c, s) == (c :> s) @@ t
Height(t) == Len(t[CHOOSE c \in DOMAIN t : TRUE])
NanCol(t) == [i \in 1..Height(t) |-> NaN]

\* A call in progress: the table as mutated so far and the exception raised.
Running(t) == [tbl |-> t, err |-> "none"]
Raise(st, e) == [st EXCEPT !.err = e]


(***************************************************************************)
(* Column-name arguments of the calculators.                               *)
(***************************************************************************)
eqArg(p, g) == CASE g = "CO2" -> p.eqCO2 [] g = "CH4" -> p.eqCH4 [] g = "N2O" -> p.eqN2O
sourceArg(p, g) ==
    CASE g = "CO2" -> p.sourceCO2 [] g = "CH4" -> p.sourceCH4 [] g = "N2O" -> p.sourceN2O
concArg(p, g) == CASE g = "CO2" -> p.concCO2 [] g = "CH4" -> p.concCH4 [] g = "N2O" -> p.concN2O

dissolvedCol(g) ==
    CASE g = "CO2" -> "dissolvedCO2" [] g = "CH4" -> "dissolvedCH4" [] g = "N2O" -> "dissolvedN2O"
satConcCol(g) ==
    CASE g = "CO2" -> "satConcCO2" [] g = "CH4" -> "satConcCH4" [] g = "N2O" -> "satConcN2O"
percSatCol(g) ==
    CASE g = "CO2" -> "CO2PercSat" [] g = "CH4" -> "CH4PercSat" [] g = "N2O" -> "N2OPercSat"

(***************************************************************************)
(* Statements shared by the two calculators.                               *)
(***************************************************************************)
\* Variant: the replacement is lost and the column stays as it was.
ReplaceNanLost(col, value) == col

\* Series.replace(nan, value)
ReplaceNan(col, value) == [i \in 1..Len(col) |-> IF IsNull(col[i]) THEN Num(value) ELSE col[i]]

\* inputFile.loc[:, source] = inputFile.loc[:, source].replace(nan, mean)
\* The column is read first: an absent column raises KeyError.
PopulateGlobalMean(st, g, p) ==
    IF st.err # "none" THEN st
    ELSE IF ~HasCol(st.tbl, sourceArg(p, g)) THEN Raise(st, "KeyError")
    ELSE [st EXCEPT !.tbl = SetCol(st.tbl, sourceArg(p, g),
                                   ReplaceNan(st.tbl[sourceArg(p, g)], globalMean(g)))]

(***************************************************************************)
(* def_calc_sdg_conc                                                       *)
(***************************************************************************)
\* Variant: a gas whose columns are not all in the table is skipped.
CalcDissolvedIfPresent(st, g, p) ==
    IF st.err # "none" THEN st
    ELSE LET t1 == SetCol(st.tbl, dissolvedCol(g), NanCol(st.tbl))
             reads == {p.baro, p.volGas, eqArg(p, g), sourceArg(p, g), p.headspaceTemp, p.volH2O}
         IN  IF ~(reads \subseteq DOMAIN t1) THEN [tbl |-> t1, err |-> "none"]
             ELSE [tbl |-> SetCol(t1, dissolvedCol(g),
                          [i \in 1..Height(t1) |->
                              DissolvedFormula(g, t1[p.baro][i], t1[p.volGas][i], t1[p.volH2O][i],
                                               t1[p.headspaceTemp][i], t1[eqArg(p, g)][i],
                                               t1[sourceArg(p, g)][i])]),
                   err |-> "none"]

\* inputFile['dissolved<Gas>'] = np.nan, then the formula over whole columns.
\* The nan column is in the table when a column the formula reads is absent.
CalcDissolved(st, g, p) ==
    IF st.err # "none" THEN st
    ELSE LET t1 == SetCol(st.tbl, dissolvedCol(g), NanCol(st.tbl))
             reads == {p.baro, p.volGas, eqArg(p, g), sourceArg(p, g), p.headspaceTemp, p.volH2O}
         IN  IF ~(reads \subseteq DOMAIN t1) THEN [tbl |-> t1, err |-> "KeyError"]
             ELSE [tbl |-> SetCol(t1, dissolvedCol(g),
                          [i \in 1..Height(t1) |->
                              DissolvedFormula(g, t1[p.baro][i], t1[p.volGas][i], t1[p.volH2O][i],
                                               t1[p.headspaceTemp][i], t1[eqArg(p, g)][i],
                                               t1[sourceArg(p, g)][i])]),
                   err |-> "none"]

\* Series.astype(float): a number stays the number it is, nan stays nan, a
\* string that is no number raises ValueError.
AsFloat(x) == IF x.k = "str" THEN [k |-> "err", v |-> 0] ELSE x

\* inputFile[c] = inputFile.<c>.astype(float), with c the literal column name.
VolumeAsFloat(st, c) ==
    IF st.err # "none" THEN st
    ELSE IF ~HasCol(st.tbl, c) THEN Raise(st, "AttributeError")
    ELSE IF \E i \in 1..Height(st.tbl) : AsFloat(st.tbl[c][i]).k = "err"
         THEN Raise(st, "ValueError")
    ELSE [st EXCEPT !.tbl = SetCol(st.tbl, c, [i \in 1..Height(st.tbl) |-> AsFloat(st.tbl[c][i])])]

\* Variant: the formulas run before the reference air is populated.
def_calc_sdg_conc_formulas_first(t, p) ==
    LET s1 == CalcDissolved(Running(t), "CO2", p)
        s2 == CalcDissolved(s1, "CH4", p)
        s3 == CalcDissolved(s2, "N2O", p)
        s4 == PopulateGlobalMean(s3, "CO2", p)
        s5 == PopulateGlobalMean(s4, "CH4", p)
        s6 == PopulateGlobalMean(s5, "N2O", p)
        s7 == VolumeAsFloat(s6, "gasVolume")
    IN  VolumeAsFloat(s7, "waterVolume")

def_calc_sdg_conc(t, p) ==
    LET s1 == PopulateGlobalMean(Running(t), "CO2", p)
        s2 == PopulateGlobalMean(s1, "CH4", p)
        s3 == PopulateGlobalMean(s2, "N2O", p)
        s4 == CalcDissolved(s3, "CO2", p)
        s5 == CalcDissolved(s4, "CH4", p)
        s6 == CalcDissolved(s5, "N2O", p)
        s7 == VolumeAsFloat(s6, "gasVolume")
    IN  VolumeAsFloat(s7, "waterVolume")

(***************************************************************************)
(* def_calc_sdg_sat                                                        *)
(***************************************************************************)
CalcSatConc(st, g, p) ==
    IF st.err # "none" THEN st
    ELSE LET t1 == SetCol(st.tbl, satConcCol(g), NanCol(st.tbl))
             reads == {p.waterTemp, sourceArg(p, g), p.baro}
         IN  IF ~(reads \subseteq DOMAIN t1) THEN [tbl |-> t1, err |-> "KeyError"]
             ELSE [tbl |-> SetCol(t1, satConcCol(g),
                          [i \in 1..Height(t1) |->
                              SatConcFormula(g, t1[p.waterTemp][i], t1[sourceArg(p, g)][i],
                                             t1[p.baro][i])]),
                   err |-> "none"]

\* Variant: the division is done cell by cell on Python floats, where a zero
\* divisor raises.
CalcPercSatScalar(st, g, p) ==
    IF st.err # "none" THEN st
    ELSE IF ~HasCol(st.tbl, concArg(p, g)) THEN Raise(st, "KeyError")
    ELSE IF \E i \in 1..Height(st.tbl) : st.tbl[satConcCol(g)][i] = Num(0)
         THEN Raise(st, "ZeroDivisionError")
    ELSE [st EXCEPT !.tbl = SetCol(st.tbl, percSatCol(g),
                          [i \in 1..Height(st.tbl) |->
                              PercSatFormula(st.tbl[concArg(p, g)][i],
                                             st.tbl[satConcCol(g)][i])])]

\* inputFile['<Gas>PercSat'] = inputFile.loc[:, conc] / inputFile['satConc<Gas>'] * cConcPerc
CalcPercSat(st, g, p) ==
    IF st.err # "none" THEN st
    ELSE IF ~HasCol(st.tbl, concArg(p, g)) THEN Raise(st, "KeyError")
    ELSE [st EXCEPT !.tbl = SetCol(st.tbl, percSatCol(g),
                          [i \in 1..Height(st.tbl) |->
                              PercSatFormula(st.tbl[concArg(p, g)][i],
                                             st.tbl[satConcCol(g)][i])])]

def_calc_sdg_sat(t, p) ==
    LET s1 == PopulateGlobalMean(Running(t), "CO2", p)
        s2 == PopulateGlobalMean(s1, "CH4", p)
        s3 == PopulateGlobalMean(s2, "N2O", p)
        s4 == CalcSatConc(s3, "CO2", p)
        s5 == CalcSatConc(s4, "CH4", p)
        s6 == CalcSatConc(s5, "N2O", p)
        s7 == CalcPercSat(s6, "CO2", p)
        s8 == CalcPercSat(s7, "CH4", p)
    IN  CalcPercSat(s8, "N2O", p)


(***************************************************************************)
(* def_format_sdg                                                          *)
(***************************************************************************)
\* ##### Default values ####
volH2O == 40
volGas == 20

outputDFNames ==
    <<"waterSampleID", "referenceAirSampleID", "equilibratedAirSampleID", "collectDate",
      "processedDate", "stationID", "barometricPressure", "headspaceTemp", "waterTemp",
      "concentrationCO2Air", "concentrationCO2Gas", "concentrationCH4Air",
      "concentrationCH4Gas", "concentrationN2OAir", "concentrationN2OGas", "waterVolume",
      "gasVolume", "volH2OSource", "volGasSource">>

labCol(g) ==
    CASE g = "CO2" -> "concentrationCO2" [] g = "CH4" -> "concentrationCH4"
      [] g = "N2O" -> "concentrationN2O"
airCol(g) ==
    CASE g = "CO2" -> "concentrationCO2Air" [] g = "CH4" -> "concentrationCH4Air"
      [] g = "N2O" -> "concentrationN2OAir"
gasCol(g) ==
    CASE g = "CO2" -> "concentrationCO2Gas" [] g = "CH4" -> "concentrationCH4Gas"
      [] g = "N2O" -> "concentrationN2OGas"

\* The test of line 51, ('externalLabData' and 'fieldDataProc' and
\* 'fieldSuperParent' not in locals()) or globals(): the locals of the call are
\* its parameter and the two defaults, and the module's globals are not empty.
DataNotLoaded ==
    LET localNames == {"data_dir", "volH2O", "volGas"}
        globalsNonEmpty == TRUE
    IN  ("fieldSuperParent" \notin localNames) \/ globalsNonEmpty

\* Names the module imports or defines (lines 37-44).
ModuleNames == {"pd", "os", "re", "np", "def_format_sdg"}

\* What the loading block (lines 55-60) does for a data_dir: "directory" is a
\* path os.path.isdir accepts, holding the stacked files; "unexpanded" is a path
\* os.path.isdir rejects and read_csv resolves (a leading ~, as the wrapper
\* passes); "absent" names nothing.
LoadTables(dir) ==
    IF dir = "directory"
    THEN (IF "neonUtilities" \in ModuleNames THEN "none" ELSE "NameError")
    ELSE IF dir = "unexpanded" THEN "none"
    ELSE "FileNotFoundError"

\* Series.isna() is a Series; `is True` asks whether it is the object True.
SeriesIsNa(col) == [i \in 1..Len(col) |-> IsNull(col[i])]
IsTrueObject(series) == FALSE

\* Lines 63-77 on the fieldDataProc table.
FlagAndDefault(fdp) ==
    LET f1 == SetCol(fdp, "volH2OSource",
                     [i \in 1..Height(fdp) |->
                         IF IsTrueObject(SeriesIsNa(fdp["waterVolumeSyringe"])) THEN Num(1) ELSE Num(0)])
        f2 == SetCol(f1, "volGasSource",
                     [i \in 1..Height(fdp) |->
                         IF IsTrueObject(SeriesIsNa(fdp["gasVolumeSyringe"])) THEN Num(1) ELSE Num(0)])
        f3 == IF IsTrueObject(SeriesIsNa(f2["waterVolumeSyringe"]))
              THEN SetCol(f2, "waterVolumeSyringe", [i \in 1..Height(fdp) |-> Num(volH2O)])
              ELSE f2
    IN  IF IsTrueObject(SeriesIsNa(f3["gasVolumeSyringe"]))
        THEN SetCol(f3, "gasVolumeSyringe", [i \in 1..Height(fdp) |-> Num(volGas)])
        ELSE f3

\* Lines 104-116: the all-nan frame, the columns of the same name, the renamed ones.
PopulateFieldData(fdp) ==
    LET n == Len(fdp["waterSampleID"])
        same == [c \in {outputDFNames[k] : k \in 1..Len(outputDFNames)} |->
                    IF c \in DOMAIN fdp THEN fdp[c] ELSE [i \in 1..n |-> NaN]]
    IN  [same EXCEPT !["headspaceTemp"] = fdp["storageWaterTemp"],
                     !["barometricPressure"] = fdp["ptBarometricPressure"],
                     !["waterVolume"] = fdp["waterVolumeSyringe"],
                     !["gasVolume"] = fdp["gasVolumeSyringe"],
                     !["stationID"] = fdp["namedLocation"]]

\* Series == scalar: nan equals nothing.
CellEq(a, b) == a.k # "nan" /\ b.k # "nan" /\ a = b

\* Variant: the first matching row is taken (.iloc[0] for .item()).
LookupFirst(table, keyCol, key, valCol) ==
    LET hits == {j \in 1..Height(table) : CellEq(table[keyCol][j], key)}
    IN  IF hits # {}
        THEN [ok |-> TRUE,
              value |-> table[valCol][CHOOSE j \in hits : \A k \in hits : j <= k]]
        ELSE [ok |-> FALSE, value |-> NaN]

\* table.loc[table.loc[:, keyCol] == key, valCol].item(): the value of the one
\* matching row; no match or several raise ValueError.
LookupItem(table, keyCol, key, valCol) ==
    LET hits == {j \in 1..Height(table) : CellEq(table[keyCol][j], key)}
    IN  IF Cardinality(hits) = 1
        THEN [ok |-> TRUE, value |-> table[valCol][CHOOSE j \in hits : TRUE]]
        ELSE [ok |-> FALSE, value |-> NaN]

SetCell(t, c, i, x) == [t EXCEPT ![c][i] = x]

\* Variant: each of the two assignments in a try block of its own.
TryGasLookupsSeparate(out, lab, l, g) ==
    LET air == LookupItem(lab, "sampleID", out["referenceAirSampleID"][l], labCol(g))
        gas == LookupItem(lab, "sampleID", out["equilibratedAirSampleID"][l], labCol(g))
        o1 == IF air.ok THEN SetCell(out, airCol(g), l, air.value) ELSE out
    IN  IF gas.ok THEN SetCell(o1, gasCol(g), l, gas.value) ELSE o1

\* One try block of lines 121-138: the reference-air assignment, then the
\* equilibrated-gas assignment; an exception in either leaves the block.
TryGasLookups(out, lab, l, g) ==
    LET air == LookupItem(lab, "sampleID", out["referenceAirSampleID"][l], labCol(g))
        gas == LookupItem(lab, "sampleID", out["equilibratedAirSampleID"][l], labCol(g))
    IN  IF ~air.ok THEN out
        ELSE LET o1 == SetCell(out, airCol(g), l, air.value)
             IN  IF ~gas.ok THEN o1 ELSE SetCell(o1, gasCol(g), l, gas.value)

RECURSIVE PopulateLabData(_, _, _)
PopulateLabData(out, lab, l) ==
    IF l > Height(out) THEN out
    ELSE PopulateLabData(
             TryGasLookups(TryGasLookups(TryGasLookups(out, lab, l, "CO2"), lab, l, "CH4"),
                           lab, l, "N2O"),
             lab, l + 1)

\* pd.isna(scalar) is the bool True for a missing value.
ScalarIsNa(x) == IsNull(x)

\* Variant: headspaceTemp is taken from fieldSuperParent whatever it holds.
TryWaterTempOverwrite(out, fsp, m) ==
    LET wt == LookupItem(fsp, "parentSampleID", out["waterSampleID"][m], "waterTemp")
    IN  IF wt.ok
        THEN SetCell(SetCell(out, "waterTemp", m, wt.value), "headspaceTemp", m, wt.value)
        ELSE out

\* One iteration of lines 141-150.
TryWaterTemp(out, fsp, m) ==
    LET wt == LookupItem(fsp, "parentSampleID", out["waterSampleID"][m], "waterTemp")
        o1 == IF wt.ok THEN SetCell(out, "waterTemp", m, wt.value) ELSE out
        hs == LookupItem(fsp, "parentSampleID", o1["waterSampleID"][m], "waterTemp")
    IN  IF ScalarIsNa(o1["headspaceTemp"][m]) = TRUE
        THEN (IF hs.ok THEN SetCell(o1, "headspaceTemp", m, hs.value) ELSE o1)
        ELSE o1

RECURSIVE PopulateWaterTemp(_, _, _)
PopulateWaterTemp(out, fsp, m) ==
    IF m > Height(out) THEN out
    ELSE PopulateWaterTemp(TryWaterTemp(out, fsp, m), fsp, m + 1)

floatColumns ==
    {"waterTemp", "concentrationCO2Air", "concentrationCO2Gas", "concentrationCH4Air",
     "concentrationCH4Gas", "concentrationN2OAir", "concentrationN2OGas"}

\* Lines 153-159.
ConvertToFloat(out) ==
    IF \E c \in floatColumns : \E i \in 1..Height(out) : AsFloat(out[c][i]).k = "err"
    THEN [tbl |-> NoTable, err |-> "ValueError"]
    ELSE [tbl |-> [c \in DOMAIN out |->
                      IF c \in floatColumns THEN [i \in 1..Height(out) |-> AsFloat(out[c][i])]
                      ELSE out[c]],
          err |-> "none"]

def_format_sdg(dir, lab, fdp, fsp) ==
    LET loaded == IF DataNotLoaded THEN LoadTables(dir) ELSE "UnboundLocalError"
    IN  IF loaded # "none" THEN [tbl |-> NoTable, err |-> loaded]
        ELSE ConvertToFloat(
                 PopulateWaterTemp(
                     PopulateLabData(PopulateFieldData(FlagAndDefault(fdp)), lab, 1),
                     fsp, 1))


(***************************************************************************)
(* The caller's column-name arguments.                                     *)
(***************************************************************************)
DefaultArgs ==
    [volGas |-> "gasVolume", volH2O |-> "waterVolume", baro |-> "barometricPressure",
     waterTemp |-> "waterTemp", headspaceTemp |-> "headspaceTemp",
     eqCO2 |-> "concentrationCO2Gas", sourceCO2 |-> "concentrationCO2Air",
     eqCH4 |-> "concentrationCH4Gas", sourceCH4 |-> "concentrationCH4Air",
     eqN2O |-> "concentrationN2OGas", sourceN2O |-> "concentrationN2OAir",
     concCO2 |-> "dissolvedCO2", concCH4 |-> "dissolvedCH4", concN2O |-> "dissolvedN2O"]

\* Names a differently-named source table uses.
OtherNames ==
    [volGas |-> "headspaceGas_mL", volH2O |-> "sampleWater_mL", baro |-> "pressure_kPa",
     waterTemp |-> "streamTemp_C", headspaceTemp |-> "shakeTemp_C",
     eqCO2 |-> "CO2_eq_ppmv", sourceCO2 |-> "CO2_air_ppmv",
     eqCH4 |-> "CH4_eq_ppmv", sourceCH4 |-> "CH4_air_ppmv",
     eqN2O |-> "N2O_eq_ppmv", sourceN2O |-> "N2O_air_ppmv",
     concCO2 |-> "CO2_M", concCH4 |-> "CH4_M", concN2O |-> "N2O_M"]

Params == DOMAIN DefaultArgs
ConcParams == {"volGas", "volH2O", "baro", "waterTemp", "headspaceTemp", "eqCO2", "sourceCO2",
               "eqCH4", "sourceCH4", "eqN2O", "sourceN2O"}
SatParams == {"baro", "waterTemp", "headspaceTemp", "concCO2", "sourceCO2", "concCH4",
              "sourceCH4", "concN2O", "sourceN2O"}

OneOverride(r) == [DefaultArgs EXCEPT ![r] = OtherNames[r]]
ArgChoices == {DefaultArgs, OtherNames} \cup {OneOverride(r) : r \in Params}

(***************************************************************************)
(* Tables a caller hands to the calculators directly.                      *)
(***************************************************************************)
BaseRow ==
    [volGas |-> Num(20), volH2O |-> Num(40), baro |-> Num(98),
     waterTemp |-> Num(1500), headspaceTemp |-> Num(2200),
     eqCO2 |-> Num(120000), sourceCO2 |-> Num(38000),
     eqCH4 |-> Num(5000), sourceCH4 |-> Num(250),
     eqN2O |-> Num(80), sourceN2O |-> Num(50),
     concCO2 |-> Num(5000000), concCH4 |-> Num(100000), concN2O |-> Num(3000)]

NoReferenceAir == [BaseRow EXCEPT !.sourceCO2 = NaN, !.sourceCH4 = NaN, !.sourceN2O = NaN]

ValueRows ==
    {BaseRow, NoReferenceAir,
     [BaseRow EXCEPT !.baro = NaN],
     [BaseRow EXCEPT !.volGas = NaN],
     [BaseRow EXCEPT !.volH2O = NaN],
     [BaseRow EXCEPT !.headspaceTemp = NaN],
     [BaseRow EXCEPT !.waterTemp = NaN],
     [BaseRow EXCEPT !.eqCO2 = NaN, !.eqCH4 = NaN, !.eqN2O = NaN],
     [BaseRow EXCEPT !.concCO2 = NaN, !.concCH4 = NaN, !.concN2O = NaN],
     [BaseRow EXCEPT !.sourceCO2 = Num(0), !.sourceCH4 = Num(0), !.sourceN2O = Num(0)],
     [NoReferenceAir EXCEPT !.baro = Num(0)],
     [BaseRow EXCEPT !.sourceCO2 = NaN, !.eqCH4 = NaN, !.sourceN2O = Num(0), !.concN2O = NaN]}

NamingRows == {BaseRow, NoReferenceAir}

\* The table holding the rows under the names p gives the parameters in
\* present, and the extra columns given.
MakeTable(rows, p, present, extra) ==
    [c \in {p[r] : r \in present} |->
        [i \in 1..Len(rows) |-> rows[i][CHOOSE r \in present : p[r] = c]]] @@ extra

CanonicalVolumes(rows) ==
    [c \in {"gasVolume", "waterVolume"} |->
        [i \in 1..Len(rows) |-> IF c = "gasVolume" THEN rows[i].volGas ELSE rows[i].volH2O]]

EmptyTable == [c \in {} |-> <<>>]


(***************************************************************************)
(* The stacked tables def_format_sdg reads.                                *)
(***************************************************************************)
FieldRow(water, ref, eq, temp, baro, waterVol, gasVol) ==
    [waterSampleID |-> water, referenceAirSampleID |-> ref, equilibratedAirSampleID |-> eq,
     collectDate |-> Str(101), processedDate |-> Str(102), namedLocation |-> Str(103),
     storageWaterTemp |-> temp, ptBarometricPressure |-> baro,
     waterVolumeSyringe |-> waterVol, gasVolumeSyringe |-> gasVol]

FieldRows ==
    {FieldRow(Str(1), Str(11), Str(21), Num(2200), Num(98), Num(45), Num(25)),
     FieldRow(Str(1), Str(12), Str(21), Num(2200), Num(98), Num(45), Num(25)),
     FieldRow(Str(2), Str(11), Str(22), NaN, Num(98), NaN, Num(25)),
     FieldRow(Str(1), NaN, Str(21), NaN, Num(97), Num(45), NaN),
     FieldRow(Str(2), Str(11), Str(21), Num(2100), NaN, NaN, NaN)}

LabRow(id, co2, ch4, n2o) ==
    [sampleID |-> id, concentrationCO2 |-> co2, concentrationCH4 |-> ch4, concentrationN2O |-> n2o]

LabAir == LabRow(Str(11), Num(41000), Num(190), Num(34))
LabEq == LabRow(Str(21), Num(120000), Num(5000), Num(80))
LabAirAgain == LabRow(Str(11), Num(42000), Num(195), Num(35))
LabEqAgain == LabRow(Str(21), Num(130000), NaN, Num(90))
LabOtherAir == LabRow(Str(12), Num(39000), Num(200), Num(36))

LabTables ==
    {<<>>, <<LabAir>>, <<LabEq>>, <<LabAir, LabEq>>,
     <<LabAir, LabEq, LabAirAgain, LabOtherAir>>, <<LabEqAgain, LabAir, LabEq>>}

ParentRow(id, temp) == [parentSampleID |-> id, waterTemp |-> temp]

ParentTables ==
    {<<>>, <<ParentRow(Str(1), Num(1500))>>,
     <<ParentRow(Str(1), Num(1500)), ParentRow(Str(2), Num(1600))>>,
     <<ParentRow(Str(1), Num(1500)), ParentRow(Str(2), Num(1600)), ParentRow(Str(1), Num(1700))>>}

\* pd.read_csv of a file with these records: one column per header name.
ReadCsv(names, records) == [c \in names |-> [i \in 1..Len(records) |-> records[i][c]]]

FieldNames == {"waterSampleID", "referenceAirSampleID", "equilibratedAirSampleID",
               "collectDate", "processedDate", "namedLocation", "storageWaterTemp",
               "ptBarometricPressure", "waterVolumeSyringe", "gasVolumeSyringe"}
LabNames == {"sampleID", "concentrationCO2", "concentrationCH4", "concentrationN2O"}
ParentNames == {"parentSampleID", "waterTemp"}

DataDirs == {"directory", "unexpanded", "absent"}

(***************************************************************************)
(* State machine.                                                          *)
(***************************************************************************)
NoCall == [op |-> "none", mode |-> "none", status |-> "none"]

\* The wrapper script: the three stacked tables are on disk, nothing is
\* formatted yet, the calculators are called with their default column names.
Init ==
    /\ dataDir \in DataDirs
    /\ \E recs \in [Rows -> FieldRows] : fieldDataProc = ReadCsv(FieldNames, recs)
    /\ \E recs \in LabTables : externalLabData = ReadCsv(LabNames, recs)
    /\ \E recs \in ParentTables : fieldSuperParent = ReadCsv(ParentNames, recs)
    /\ inputFile = NoTable
    /\ csvFile = NoTable
    /\ args = DefaultArgs
    /\ returned = NoTable
    /\ pre = NoTable
    /\ last = NoCall
    /\ prev = NoCall
    /\ ncalls = 0

\* A caller with a table of its own, in memory and saved as a csv file.
InitCalc ==
    /\ dataDir = "none"
    /\ externalLabData = NoTable
    /\ fieldDataProc = NoTable
    /\ fieldSuperParent = NoTable
    /\ \/ \E rows \in [Rows -> ValueRows], withConc \in BOOLEAN :
             /\ args = DefaultArgs
             /\ inputFile = MakeTable(rows, DefaultArgs,
                                      IF withConc THEN Params ELSE ConcParams, EmptyTable)
       \/ \E rows \in [Rows -> NamingRows], p \in ArgChoices \ {DefaultArgs}, canon \in BOOLEAN :
             /\ args = p
             /\ inputFile = MakeTable(rows, p, Params,
                                      IF canon THEN CanonicalVolumes(rows) ELSE EmptyTable)
       \/ \E rows \in [Rows -> NamingRows], p \in {DefaultArgs, OtherNames}, absent \in Params :
             /\ args = p
             /\ inputFile = MakeTable(rows, p, Params \ {absent},
                                      IF p = OtherNames THEN CanonicalVolumes(rows)
                                      ELSE EmptyTable)
    /\ csvFile = inputFile
    /\ returned = NoTable
    /\ pre = NoTable
    /\ last = NoCall
    /\ prev = NoCall
    /\ ncalls = 0

\* sdg_data = def_format_sdg(data_dir = input_path)
Format ==
    /\ last = NoCall
    /\ dataDir \in DataDirs
    /\ LET r == def_format_sdg(dataDir, externalLabData, fieldDataProc, fieldSuperParent)
       IN  /\ inputFile' = r.tbl
           /\ returned' = r.tbl
           /\ last' = [op |-> "format", mode |-> "path", status |-> r.err]
    /\ pre' = inputFile
    /\ prev' = last
    /\ UNCHANGED <<dataDir, externalLabData, fieldDataProc, fieldSuperParent, csvFile, args,
                   ncalls>>

\* Variant: the body works on a copy of the caller's DataFrame.
CallOnCopy(op, mode, r) ==
    /\ inputFile' = inputFile
    /\ returned' = IF r.err = "none" THEN r.tbl ELSE NoTable
    /\ pre' = inputFile
    /\ last' = [op |-> op, mode |-> mode, status |-> r.err]
    /\ prev' = last
    /\ ncalls' = ncalls + 1
    /\ UNCHANGED <<dataDir, externalLabData, fieldDataProc, fieldSuperParent, csvFile, args>>

\* One call of a calculator.  mode "frame": inputFile is the caller's
\* DataFrame, which the body works on.  mode "path": inputFile is a str and
\* the body works on what pd.read_csv returns for it.  An exception that
\* leaves the call ends the script.
Call(op, mode, r) ==
    /\ inputFile' = IF mode = "frame" THEN r.tbl ELSE inputFile
    /\ returned' = IF r.err = "none" THEN r.tbl ELSE NoTable
    /\ pre' = inputFile
    /\ last' = [op |-> op, mode |-> mode, status |-> r.err]
    /\ prev' = last
    /\ ncalls' = ncalls + 1
    /\ UNCHANGED <<dataDir, externalLabData, fieldDataProc, fieldSuperParent, csvFile, args>>

Argument(mode) == IF mode = "frame" THEN inputFile ELSE csvFile

CalcConc ==
    /\ ncalls < MaxCalls
    /\ last.status = "none"
    /\ \E mode \in {"frame", "path"} :
          /\ Argument(mode) # NoTable
          /\ Call("conc", mode, def_calc_sdg_conc(Argument(mode), args))

CalcSat ==
    /\ ncalls < MaxCalls
    /\ last.status = "none"
    /\ \E mode \in {"frame", "path"} :
          /\ Argument(mode) # NoTable
          /\ Call("sat", mode, def_calc_sdg_sat(Argument(mode), args))

Next == Format \/ CalcConc \/ CalcSat
NextCalc == CalcConc \/ CalcSat

Spec == Init /\ [][Next]_vars
SpecCalc == InitCalc /\ [][NextCalc]_vars


(***************************************************************************)
(* Vocabulary of the properties.                                           *)
(***************************************************************************)
\* The table the last call's body worked on, as it was when the call began.
Given == IF last.mode = "frame" THEN pre ELSE csvFile

ConcReturned == last.op = "conc" /\ last.status = "none"
SatReturned == last.op = "sat" /\ last.status = "none"

\* The reference-air value a row contributes to the formulas.
Effective(g, x) == IF IsNull(x) THEN Num(globalMean(g)) ELSE x

RowsOf(t) == 1..Height(t)

(***************************************************************************)
(* C1: for every row and gas, a reference-air cell that is null when       *)
(* def_calc_sdg_conc or def_calc_sdg_sat is called enters the formula as   *)
(* the global mean (CO2 405, CH4 1.85, N2O 0.330), a non-null cell enters  *)
(* unchanged, and dissolved<Gas> / satConc<Gas> is the formula's value for *)
(* it, in def_calc_sdg_sat whether or not def_calc_sdg_conc ran before.    *)
(***************************************************************************)
C1_ReferenceAirDefault ==
    /\ ConcReturned =>
          \A g \in GasSet : \A i \in RowsOf(Given) :
              LET src == Effective(g, Given[sourceArg(args, g)][i])
              IN  /\ returned[sourceArg(args, g)][i] = src
                  /\ returned[dissolvedCol(g)][i] =
                         DissolvedFormula(g, Given[args.baro][i], Given[args.volGas][i],
                                          Given[args.volH2O][i], Given[args.headspaceTemp][i],
                                          Given[eqArg(args, g)][i], src)
    /\ SatReturned =>
          \A g \in GasSet : \A i \in RowsOf(Given) :
              LET src == Effective(g, Given[sourceArg(args, g)][i])
              IN  /\ returned[sourceArg(args, g)][i] = src
                  /\ returned[satConcCol(g)][i] =
                         SatConcFormula(g, Given[args.waterTemp][i], src, Given[args.baro][i])

\* A first call of def_calc_sdg_sat (no def_calc_sdg_conc before it) on a table
\* with a null reference-air cell, whose satConc is a number, next to a row
\* whose reported reference air is kept.
C1_Witness ==
    /\ SatReturned /\ prev = NoCall
    /\ \E i, j \in RowsOf(Given) :
          /\ IsNull(Given[args.sourceN2O][i])
          /\ returned[args.sourceN2O][i] = Num(33)
          /\ IsFinite(returned["satConcN2O"][i])
          /\ Given[args.sourceN2O][j] = Num(50)
          /\ returned[args.sourceN2O][j] = Num(50)

(***************************************************************************)
(* C2: null propagation.  In def_calc_sdg_conc a null barometric pressure, *)
(* gas volume, water volume, headspace temperature or equilibrated-gas     *)
(* concentration raises nothing and makes dissolved<Gas> of the row null;  *)
(* in def_calc_sdg_sat a null water temperature or barometric pressure     *)
(* makes satConc<Gas> and <Gas>PercSat null and a null dissolved<Gas>      *)
(* makes <Gas>PercSat null.  A null reference-air cell alone makes nothing *)
(* null.                                                                   *)
(***************************************************************************)
ConcInputs(g) == {args.baro, args.volGas, args.volH2O, args.headspaceTemp, eqArg(args, g)}
ConcColumns == {args[r] : r \in ConcParams \ {"waterTemp"}} \cup {"gasVolume", "waterVolume"}
SatColumns == {args[r] : r \in SatParams \ {"headspaceTemp"}}

C2_NullPropagation ==
    /\ (last.op = "conc" /\ ConcColumns \subseteq DOMAIN Given) =>
          /\ last.status = "none"
          /\ \A g \in GasSet : \A i \in RowsOf(Given) :
                IsNull(returned[dissolvedCol(g)][i]) <=>
                    \E c \in ConcInputs(g) : IsNull(Given[c][i])
    /\ (last.op = "sat" /\ SatColumns \subseteq DOMAIN Given) =>
          /\ last.status = "none"
          /\ \A g \in GasSet : \A i \in RowsOf(Given) :
                /\ IsNull(returned[satConcCol(g)][i]) <=>
                       (IsNull(Given[args.waterTemp][i]) \/ IsNull(Given[args.baro][i]))
                /\ (\/ IsNull(Given[args.waterTemp][i])
                    \/ IsNull(Given[args.baro][i])
                    \/ IsNull(Given[concArg(args, g)][i])) => IsNull(returned[percSatCol(g)][i])

\* def_calc_sdg_conc returned for a table with a null barometric pressure in
\* one row and null reference air (and nothing else null) in another.
C2_Witness ==
    /\ ConcReturned
    /\ \E i, j \in RowsOf(Given) :
          /\ IsNull(Given[args.baro][i])
          /\ IsNull(returned["dissolvedCO2"][i])
          /\ IsNull(Given[args.sourceCO2][j])
          /\ IsFinite(returned["dissolvedCO2"][j])


(***************************************************************************)
(* Vocabulary of the formatter's properties.                               *)
(***************************************************************************)
\* def_format_sdg returned a table (the state right after the Format step).
Formatted == last.op = "format" /\ last.status = "none"

\* The three tables were read: nothing before line 63 raised.
TablesRead == last.op = "format" /\ last.status \notin {"NameError", "FileNotFoundError"}

\* What a lookup of its own decides for a field: the value of the one
\* matching row, null when no row or several rows match.
OwnLookup(table, keyCol, key, valCol) ==
    LET hits == {j \in RowsOf(table) : CellEq(table[keyCol][j], key)}
    IN  IF Cardinality(hits) = 1 THEN table[valCol][CHOOSE j \in hits : TRUE] ELSE NaN

Unique(table, keyCol, key) ==
    Cardinality({j \in RowsOf(table) : CellEq(table[keyCol][j], key)}) = 1

(***************************************************************************)
(* C3: in the table def_format_sdg returns, for each row of fieldDataProc, *)
(* volH2OSource is 1 and waterVolume is 40 if the row's waterVolumeSyringe *)
(* is missing, otherwise volH2OSource is 0 and waterVolume is the syringe  *)
(* value; likewise volGasSource and gasVolume (20) for gasVolumeSyringe.   *)
(***************************************************************************)
C3_VolumeDefaults ==
    Formatted =>
        \A i \in RowsOf(fieldDataProc) :
            /\ IF IsNull(fieldDataProc["waterVolumeSyringe"][i])
               THEN returned["volH2OSource"][i] = Num(1) /\ returned["waterVolume"][i] = Num(40)
               ELSE /\ returned["volH2OSource"][i] = Num(0)
                    /\ returned["waterVolume"][i] = fieldDataProc["waterVolumeSyringe"][i]
            /\ IF IsNull(fieldDataProc["gasVolumeSyringe"][i])
               THEN returned["volGasSource"][i] = Num(1) /\ returned["gasVolume"][i] = Num(20)
               ELSE /\ returned["volGasSource"][i] = Num(0)
                    /\ returned["gasVolume"][i] = fieldDataProc["gasVolumeSyringe"][i]

(***************************************************************************)
(* C4: in the table def_format_sdg returns, each of the six gas            *)
(* concentration fields of a row is decided by its own lookup only:        *)
(* concentration<Gas>Air by referenceAirSampleID, concentration<Gas>Gas by *)
(* equilibratedAirSampleID, null when that lookup has no unique match.     *)
(***************************************************************************)
C4_IndependentLookups ==
    Formatted =>
        \A g \in GasSet : \A i \in RowsOf(fieldDataProc) :
            /\ returned[airCol(g)][i] =
                   OwnLookup(externalLabData, "sampleID",
                             fieldDataProc["referenceAirSampleID"][i], labCol(g))
            /\ returned[gasCol(g)][i] =
                   OwnLookup(externalLabData, "sampleID",
                             fieldDataProc["equilibratedAirSampleID"][i], labCol(g))

(***************************************************************************)
(* C5: once the three tables are read, def_format_sdg returns one output   *)
(* row per row of fieldDataProc, in the same order, whatever externalLab-  *)
(* Data and fieldSuperParent hold: a lookup with no match or several       *)
(* matches raises nothing, leaves its field null in that row, and every    *)
(* row is what def_format_sdg makes of that row alone.                     *)
(***************************************************************************)
OnlyRow(t, i) == [c \in DOMAIN t |-> <<t[c][i]>>]

C5_LookupFailuresTolerated ==
    TablesRead =>
        /\ last.status = "none"
        /\ \A c \in DOMAIN returned : Len(returned[c]) = Height(fieldDataProc)
        /\ \A c \in {"waterSampleID", "referenceAirSampleID", "equilibratedAirSampleID"} :
               returned[c] = fieldDataProc[c]
        /\ \A i \in RowsOf(fieldDataProc) :
              /\ \A g \in GasSet :
                    /\ ~Unique(externalLabData, "sampleID",
                               fieldDataProc["referenceAirSampleID"][i])
                           => IsNull(returned[airCol(g)][i])
                    /\ ~Unique(externalLabData, "sampleID",
                               fieldDataProc["equilibratedAirSampleID"][i])
                           => IsNull(returned[gasCol(g)][i])
              /\ ~Unique(fieldSuperParent, "parentSampleID", fieldDataProc["waterSampleID"][i])
                     => /\ IsNull(returned["waterTemp"][i])
                        /\ returned["headspaceTemp"][i] = fieldDataProc["storageWaterTemp"][i]
              /\ OnlyRow(returned, i) =
                     def_format_sdg(dataDir, externalLabData, OnlyRow(fieldDataProc, i),
                                    fieldSuperParent).tbl

\* A returned table with a row whose reference-air identifier matches two lab
\* rows and whose waterSampleID matches no one super-parent row (its fields
\* are null), and another row whose lookups all match once and are filled.
C5_Witness ==
    /\ Formatted
    /\ \E i, j \in RowsOf(fieldDataProc) :
          /\ Cardinality({k \in RowsOf(externalLabData) :
                             CellEq(externalLabData["sampleID"][k],
                                    fieldDataProc["referenceAirSampleID"][i])}) = 2
          /\ IsNull(returned["concentrationCO2Air"][i])
          /\ ~Unique(fieldSuperParent, "parentSampleID", fieldDataProc["waterSampleID"][i])
          /\ IsNull(returned["waterTemp"][i])
          /\ Unique(externalLabData, "sampleID", fieldDataProc["referenceAirSampleID"][j])
          /\ Unique(externalLabData, "sampleID", fieldDataProc["equilibratedAirSampleID"][j])
          /\ IsFinite(returned["concentrationCO2Air"][j])
          /\ IsFinite(returned["concentrationCO2Gas"][j])


(***************************************************************************)
(* C6: each of the eleven column-name parameters of def_calc_sdg_conc can  *)
(* be overridden independently: given a table that carries its data under  *)
(* the names the arguments give (and no column of the canonical name), the *)
(* call returns and the three dissolved<Gas> columns are the formula over  *)
(* the columns the arguments name.                                         *)
(***************************************************************************)
C6_OverridesSuffice ==
    (last.op = "conc" /\ {args[r] : r \in ConcParams} \subseteq DOMAIN Given) =>
        /\ last.status = "none"
        /\ \A g \in GasSet : \A i \in RowsOf(Given) :
              returned[dissolvedCol(g)][i] =
                  DissolvedFormula(g, Given[args.baro][i], Given[args.volGas][i],
                                   Given[args.volH2O][i], Given[args.headspaceTemp][i],
                                   Given[eqArg(args, g)][i],
                                   Effective(g, Given[sourceArg(args, g)][i]))

(***************************************************************************)
(* C7 as claimed: def_calc_sdg_conc and def_calc_sdg_sat, given an         *)
(* in-memory table, leave the caller's table as it was before the call     *)
(* (same columns, same cells, null reference-air cells still null).        *)
(***************************************************************************)
C7_CallerTableUnchanged ==
    (last.op \in {"conc", "sat"} /\ last.mode = "frame" /\ last.status = "none") =>
        inputFile = pre

(***************************************************************************)
(* C7 as amended: def_calc_sdg_conc and def_calc_sdg_sat, given an         *)
(* in-memory table, work on that table and return it: after a call that    *)
(* returns, the caller's table is the returned table, it has its former    *)
(* columns and the derived ones, every null reference-air cell holds the   *)
(* global mean, and every other cell of a column that is neither a         *)
(* reference-air column nor a derived column is as before the call.        *)
(***************************************************************************)
Derived(op) ==
    IF op = "conc" THEN {dissolvedCol(g) : g \in GasSet}
    ELSE {satConcCol(g) : g \in GasSet} \cup {percSatCol(g) : g \in GasSet}

C7_InPlace ==
    (last.op \in {"conc", "sat"} /\ last.mode = "frame" /\ last.status = "none") =>
        /\ returned = inputFile
        /\ DOMAIN inputFile = DOMAIN pre \cup Derived(last.op)
        /\ \A g \in GasSet : \A i \in RowsOf(pre) :
              inputFile[sourceArg(args, g)][i] = Effective(g, pre[sourceArg(args, g)][i])
        /\ \A c \in DOMAIN pre \ ({sourceArg(args, g) : g \in GasSet} \cup Derived(last.op)) :
              inputFile[c] = pre[c]

\* def_calc_sdg_conc returned for an in-memory table that had a null
\* reference-air cell and no dissolvedCO2 column: the caller's table now
\* holds 405 there and has the column.
C7_Witness ==
    /\ ConcReturned /\ last.mode = "frame"
    /\ "dissolvedCO2" \notin DOMAIN pre
    /\ "dissolvedCO2" \in DOMAIN inputFile
    /\ \E i \in RowsOf(pre) :
          /\ IsNull(pre[args.sourceCO2][i])
          /\ inputFile[args.sourceCO2][i] = Num(40500)

(***************************************************************************)
(* C8: in def_calc_sdg_sat, for every row and gas, <Gas>PercSat is         *)
(* dissolved<Gas> / satConc<Gas> * 100 over the satConc<Gas> written on    *)
(* the same row; a satConc<Gas> of zero raises nothing and gives that row  *)
(* a non-finite or null <Gas>PercSat, and rows with a finite dissolved and *)
(* a non-zero satConc keep a finite <Gas>PercSat.                          *)
(***************************************************************************)
C8_PercSat ==
    /\ (last.op = "sat" /\ SatColumns \subseteq DOMAIN Given) => last.status = "none"
    /\ SatReturned =>
          \A g \in GasSet : \A i \in RowsOf(Given) :
              LET conc == Given[concArg(args, g)][i]
                  sat == returned[satConcCol(g)][i]
                  perc == returned[percSatCol(g)][i]
              IN  /\ perc = PercSatFormula(conc, sat)
                  /\ sat = Num(0) => ~IsFinite(perc)
                  /\ (IsFinite(conc) /\ IsFinite(sat) /\ sat # Num(0)) =>
                         /\ IsFinite(perc)
                         /\ perc.v = ((conc.v * 100) \div sat.v) * 100

\* def_calc_sdg_sat returned for a table with a row whose satConcCO2 is zero
\* (pure-gas reference air) and whose CO2PercSat is infinite, next to a row
\* with a finite CO2PercSat.
C8_Witness ==
    /\ SatReturned
    /\ \E i, j \in RowsOf(Given) :
          /\ returned["satConcCO2"][i] = Num(0)
          /\ returned["CO2PercSat"][i] = Inf(1)
          /\ IsFinite(returned["CO2PercSat"][j])
          /\ returned["CO2PercSat"][j].v > 0

(***************************************************************************)
(* C9: idempotence.  A second def_calc_sdg_conc on the table its first     *)
(* application produced gives the same dissolved<Gas> and reference-air    *)
(* values for every row and gas; likewise def_calc_sdg_sat with            *)
(* satConc<Gas> and <Gas>PercSat.                                          *)
(***************************************************************************)
C9_Idempotent ==
    (/\ last.op \in {"conc", "sat"} /\ prev.op = last.op
     /\ last.mode = "frame" /\ prev.mode = "frame"
     /\ last.status = "none" /\ prev.status = "none") =>
        \A c \in Derived(last.op) \cup {sourceArg(args, g) : g \in GasSet} :
            inputFile[c] = pre[c]

\* Two calls of def_calc_sdg_conc in a row on a table that began with a null
\* reference-air cell (the first call wrote the global mean over it).
C9_Witness ==
    /\ ConcReturned /\ prev.op = "conc" /\ prev.status = "none"
    /\ last.mode = "frame" /\ prev.mode = "frame"
    /\ \E i \in RowsOf(csvFile) :
          /\ IsNull(csvFile[args.sourceCH4][i])
          /\ inputFile[args.sourceCH4][i] = Num(185)
          /\ IsFinite(inputFile["dissolvedCH4"][i])

(***************************************************************************)
(* C10 as claimed: def_calc_sdg_conc raises and returns no table whenever  *)
(* any one of its eleven input columns (the one named by waterTemp         *)
(* included) is absent from the table; def_calc_sdg_sat likewise for its   *)
(* nine (the one named by headspaceTemp included).                         *)
(***************************************************************************)
Absent(params) == \E r \in params : args[r] \notin DOMAIN Given

NoMatch(table, keyCol, key) == \A j \in RowsOf(table) : ~CellEq(table[keyCol][j], key)

NoReferenceMatch(i) ==
    NoMatch(externalLabData, "sampleID", fieldDataProc["referenceAirSampleID"][i])

C11_UnmatchedReferenceAir ==
    /\ Formatted =>
          /\ Height(returned) = Height(fieldDataProc)
          /\ \A i \in RowsOf(fieldDataProc) :
                NoReferenceMatch(i) => IsNull(returned["concentrationCO2Air"][i])
    /\ (last.op = "conc" /\ prev.op = "format") =>
          /\ last.status = "none"
          /\ Height(returned) = Height(fieldDataProc)
          /\ \A i \in RowsOf(fieldDataProc) :
                NoReferenceMatch(i) =>
                    /\ IsNull(pre["concentrationCO2Air"][i])
                    /\ IsNull(returned["dissolvedCO2"][i])

\* def_calc_sdg_conc returned for the formatter's output of a row whose
\* reference-air identifier matches no lab row while its equilibrated-air
\* identifier matches exactly one, and whose other inputs are all present;
\* dissolvedCO2 of the row is null, and that of a row with both matches is a
\* number.
C11_Witness ==
    /\ ConcReturned /\ prev.op = "format"
    /\ \E i, j \in RowsOf(fieldDataProc) :
          /\ NoReferenceMatch(i)
          /\ Unique(externalLabData, "sampleID", fieldDataProc["equilibratedAirSampleID"][i])
          /\ IsFinite(OwnLookup(externalLabData, "sampleID",
                                fieldDataProc["equilibratedAirSampleID"][i], "concentrationCO2"))
          /\ \A c \in {"barometricPressure", "headspaceTemp", "gasVolume", "waterVolume"} :
                 IsFinite(returned[c][i])
          /\ IsNull(returned["dissolvedCO2"][i])
          /\ returned["concentrationCO2Air"][i] = Num(40500)
          /\ Unique(externalLabData, "sampleID", fieldDataProc["referenceAirSampleID"][j])
          /\ IsFinite(returned["dissolvedCO2"][j])


(***************************************************************************)
(* C12: def_format_sdg(data_dir) returns the formatted table whenever      *)
(* data_dir names an existing directory that holds the three stacked       *)
(* files: the call reaches the three reads and the return without raising  *)
(* and uses no name the module has not imported or defined.                *)
(***************************************************************************)
C12_ExistingDirectoryFormats ==
    (last.op = "format" /\ dataDir = "directory") =>
        /\ last.status = "none"
        /\ returned # NoTable
        /\ Height(returned) = Height(fieldDataProc)


(***************************************************************************)
(* C13: in the table def_format_sdg returns, for every row: waterTemp is   *)
(* the waterTemp of the one fieldSuperParent row whose parentSampleID      *)
(* equals the row's waterSampleID, null when no row or several rows match; *)
(* headspaceTemp is fieldDataProc.storageWaterTemp when that is present    *)
(* (the super-parent value never replaces it), and when storageWaterTemp   *)
(* is missing it is that same super-parent waterTemp if the match is       *)
(* unique and null otherwise.                                              *)
(***************************************************************************)
ParentWaterTemp(i) ==
    OwnLookup(fieldSuperParent, "parentSampleID", fieldDataProc["waterSampleID"][i], "waterTemp")

C13_WaterTempBackfill ==
    Formatted =>
        \A i \in RowsOf(fieldDataProc) :
            /\ returned["waterTemp"][i] = ParentWaterTemp(i)
            /\ returned["headspaceTemp"][i] =
                   IF IsNull(fieldDataProc["storageWaterTemp"][i])
                   THEN ParentWaterTemp(i)
                   ELSE fieldDataProc["storageWaterTemp"][i]

\* A returned table with a row whose storageWaterTemp is present and differs
\* from its unique super-parent waterTemp (headspaceTemp keeps the former), and
\* a row whose storageWaterTemp is missing and whose match is unique
\* (headspaceTemp is the super-parent waterTemp).
C13_Witness ==
    /\ Formatted
    /\ \E i, j \in RowsOf(fieldDataProc) :
          /\ IsFinite(fieldDataProc["storageWaterTemp"][i])
          /\ Unique(fieldSuperParent, "parentSampleID", fieldDataProc["waterSampleID"][i])
          /\ IsFinite(returned["waterTemp"][i])
          /\ returned["waterTemp"][i] # fieldDataProc["storageWaterTemp"][i]
          /\ returned["headspaceTemp"][i] = fieldDataProc["storageWaterTemp"][i]
          /\ IsNull(fieldDataProc["storageWaterTemp"][j])
          /\ Unique(fieldSuperParent, "parentSampleID", fieldDataProc["waterSampleID"][j])
          /\ IsFinite(returned["headspaceTemp"][j])
          /\ returned["headspaceTemp"][j] = returned["waterTemp"][j]


(***************************************************************************)
(* C14: failure atomicity.  Whenever def_calc_sdg_conc or def_calc_sdg_sat *)
(* fails because an input column is absent, the caller's table is exactly  *)
(* as it was before the call: no reference-air cell has been replaced by a *)
(* default and no dissolved<Gas>, satConc<Gas> or <Gas>PercSat column has  *)
(* been added or overwritten.                                              *)
(***************************************************************************)
C14_FailureAtomic ==
    (last.op \in {"conc", "sat"} /\ last.mode = "frame" /\ last.status = "KeyError") =>
        /\ inputFile = pre
        /\ \A g \in GasSet :
               /\ sourceArg(args, g) \in DOMAIN pre =>
                      inputFile[sourceArg(args, g)] = pre[sourceArg(args, g)]
               /\ \A c \in {dissolvedCol(g), satConcCol(g), percSatCol(g)} :
                      (c \in DOMAIN inputFile) <=> (c \in DOMAIN pre)

=============================================================================
